---------------------------- MODULE Spec2Model ----------------------------
(***************************************************************************)
(* tsping: inventory the peers of a tailnet, probe each one concurrently,  *)
(* group the peers by public egress address, rank them and render a table. *)
(*                                                                         *)
(* The repository holds several iterations of the same program.  The       *)
(* variable "variant" selects the one a behaviour runs:                    *)
(*   "int"     src/unnamed/part_000  in-place records, integer groups      *)
(*   "letter"  src/main.go:1-395     in-place records, letter groups, ISP  *)
(*   "timeout" src/unnamed/part_001  result channel, collector, 10 s timer *)
(*   "chan"    src/main.go:397-537   result channel drained by main        *)
(*                                                                         *)
(* Text is modelled as sequences of one-character strings, so that         *)
(* TrimSpace, Fields, HasPrefix and Contains are computed as Go computes   *)
(* them.  A decimal digit run matched by (\d+) is a sequence of digits.    *)
(***************************************************************************)
EXTENDS Integers, Sequences, FiniteSets, TLC

VARIABLES
    variant,      \* which iteration of the program runs
    goos,         \* runtime.GOOS
    cmdOutput,    \* the lines "tailscale status" prints in this run
    mainpc,       \* position of main
    resultsList,  \* main's resultsList
    spawned,      \* number of goroutines main has started (loop index)
    gpc,          \* position of each probe goroutine
    wg,           \* sync.WaitGroup counter
    completed,    \* the shared int32 counter
    bar,          \* progress bar state
    results,      \* timeout variant: buffered channel "results"
    resultsOpen,  \* timeout variant: FALSE once close(results) ran
    collpc,       \* timeout variant: position of the collector goroutine
    closerpc,     \* timeout variant: position of the wg.Wait/close goroutine
    progpc,       \* timeout variant: position of the progress reporter
    progressDone, \* timeout variant: TRUE once close(progressDone) ran
    timerFired,   \* timeout variant: time.After(10s) has delivered
    ips,          \* timeout variant: main's ips
    glocal,       \* timeout variant: each pingIP's local "result"
    raced,        \* timeout variant: resultsList was appended to while main
                  \* was reading it (sort.Slice or the render loop)
    stdout,       \* what main printed before the table
    table         \* whether table.Render() ran, and the rows appended

vars == <<variant, goos, cmdOutput, mainpc, resultsList, spawned, gpc, wg, completed,
          bar, results, resultsOpen, collpc, closerpc, progpc, progressDone,
          timerFired, ips, glocal, raced, stdout, table>>

(***************************************************************************)
(* Bounds of the model.                                                    *)
(***************************************************************************)
\* peers in the directory in a run of the whole program
MaxPeers == 2
\* peers in the list handed to grouping and ranking
MaxRank == 3
\* lines of a listing handed to the directory reader on its own
MaxLines == 2

(***************************************************************************)
(* Go's strings package on character sequences.                            *)
(***************************************************************************)
IsSpace(c) == c \in {" ", "\t"}

RECURSIVE TrimLeft(_)
TrimLeft(s) ==
    IF s # <<>> /\ IsSpace(Head(s)) THEN TrimLeft(Tail(s)) ELSE s

RECURSIVE TrimRight(_)
TrimRight(s) ==
    IF s # <<>> /\ IsSpace(s[Len(s)])
    THEN TrimRight(SubSeq(s, 1, Len(s) - 1)) ELSE s

TrimSpace(s) == TrimRight(TrimLeft(s))

HasPrefix(s, p) == Len(s) >= Len(p) /\ SubSeq(s, 1, Len(p)) = p

Contains(s, sub) ==
    \E i \in 1..(Len(s) - Len(sub) + 1) : SubSeq(s, i, i + Len(sub) - 1) = sub

\* the longest prefix of s without white space
RECURSIVE Word(_)
Word(s) ==
    IF s = <<>> \/ IsSpace(Head(s)) THEN <<>> ELSE <<Head(s)>> \o Word(Tail(s))

RECURSIVE Fields(_)
Fields(s) ==
    LET t == TrimLeft(s) IN
    IF t = <<>> THEN <<>>
    ELSE LET w == Word(t) IN <<w>> \o Fields(SubSeq(t, Len(w) + 1, Len(t)))

RECURSIVE Join(_, _)
Join(fs, sep) ==
    IF fs = <<>> THEN <<>>
    ELSE IF Len(fs) = 1 THEN fs[1]
    ELSE fs[1] \o sep \o Join(Tail(fs), sep)

Self == <<"S", "e", "l", "f">>
offline == <<"o", "f", "f", "l", "i", "n", "e">>

(***************************************************************************)
(* Peer directory: the text of "tailscale status", a sequence of lines.    *)
(***************************************************************************)
DigitChar == <<"0", "1", "2", "3", "4", "5", "6", "7", "8", "9">>

\* "1.<i> h<i> u l -": an online peer
PeerLine(i) ==
    <<"1", ".", DigitChar[i + 1], " ", "h", DigitChar[i + 1], " ", "u", " ",
      "l", " ", "-">>

CommentLine == <<"#", " ", "h">>
BlankLine == <<" ">>
\* "1.0 x u l offline"
OfflineLine ==
    <<"1", ".", "0", " ", "x", " ", "u", " ", "l", " ">> \o offline

Listing(n) ==
    <<CommentLine, BlankLine, OfflineLine>> \o [i \in 1..n |-> PeerLine(i)]

StatusOutputs == {Listing(n) : n \in 0..MaxPeers}

\* the PingResult literal of getTailscaleStatus; the other fields are Go's
\* zero values ("" for strings, nil for pings, 0 for the integer group)
NewPingResult(v, fields) ==
    IF v = "int"
    THEN [ip |-> fields[1], hostname |-> fields[2], user |-> fields[3],
          os |-> fields[4], externalIP |-> <<>>, port |-> <<>>,
          pings |-> <<>>, group |-> 0]
    ELSE [ip |-> fields[1], hostname |-> fields[2], user |-> fields[3],
          os |-> fields[4], externalIP |-> <<>>, port |-> <<>>,
          pings |-> <<>>, group |-> <<>>, isp |-> <<>>]

\* one iteration of the scanner loop: the records the line contributes
StatusLine(v, raw) ==
    LET line == TrimSpace(raw)
        fields == Fields(line)
        status == Join(SubSeq(fields, 5, Len(fields)), <<" ">>)
    IN  IF line = <<>> \/ HasPrefix(line, <<"#">>) \/ Contains(line, Self)
        THEN <<>>
        ELSE IF Len(fields) < 4 THEN <<>>
        ELSE IF Contains(status, offline) THEN <<>>
        ELSE <<NewPingResult(v, fields)>>

RECURSIVE getTailscaleStatus(_, _)
getTailscaleStatus(v, output) ==
    IF output = <<>> THEN <<>>
    ELSE StatusLine(v, Head(output)) \o getTailscaleStatus(v, Tail(output))

\* timeout variant: one iteration of the scanner loop of getTailscaleIPs.
\* fields[1] of a one-field line is an index out of range: a run-time panic.
IPsLine(line) ==
    LET fields == Fields(line) IN
    IF Contains(line, offline) THEN [panic |-> FALSE, ips |-> <<>>]
    ELSE IF Len(fields) > 0 /\ Contains(fields[1], <<".">>)
         THEN IF Len(fields) >= 2
              THEN [panic |-> FALSE, ips |-> <<fields[2]>>]
              ELSE [panic |-> TRUE, ips |-> <<>>]
         ELSE [panic |-> FALSE, ips |-> <<>>]

RECURSIVE getTailscaleIPs(_)
getTailscaleIPs(output) ==
    IF output = <<>> THEN [panic |-> FALSE, ips |-> <<>>]
    ELSE LET h == IPsLine(Head(output)) IN
         IF h.panic THEN h
         ELSE LET t == getTailscaleIPs(Tail(output)) IN
              IF t.panic THEN t
              ELSE [panic |-> FALSE, ips |-> h.ips \o t.ips]

\* "1.<i> h.<i> u l -": an online peer whose second field holds a dot
DottedLine(i) ==
    <<"1", ".", DigitChar[i + 1], " ", "h", ".", DigitChar[i + 1], " ", "u",
      " ", "l", " ", "-">>
\* a line of one field
ShortLine == <<"1", ".", "9">>

ListingC(n) ==
    <<CommentLine, BlankLine, OfflineLine, ShortLine, PeerLine(1)>>
        \o [i \in 1..n |-> DottedLine(i)]

StatusOutputsC == {ListingC(n) : n \in 0..MaxPeers}

\* channel variant (main.go:432-441): one iteration of the scanner loop
IPsLineC(line) ==
    LET fields == Fields(line) IN
    IF Contains(line, offline) THEN <<>>
    ELSE IF Len(fields) > 1 /\ Contains(fields[2], <<".">>)
         THEN <<fields[2]>>
         ELSE <<>>

RECURSIVE getTailscaleIPsC(_)
getTailscaleIPsC(output) ==
    IF output = <<>> THEN <<>>
    ELSE IPsLineC(Head(output)) \o getTailscaleIPsC(Tail(output))

\* lines of a listing beyond the plain ones, for the reader on its own
\* "1.2 h2 u l": four fields and no status
FourFieldLine == <<"1", ".", "2", " ", "h", "2", " ", "u", " ", "l">>
\* "1.3 h3 u": three fields
ThreeFieldLine == <<"1", ".", "3", " ", "h", "3", " ", "u">>
\* "1.4 offline u l -": an online peer whose name is the word of the marker
OfflineNamedLine ==
    <<"1", ".", "4", " ">> \o offline \o <<" ", "u", " ", "l", " ", "-">>
\* "1.5 h5 u l - Self": the line of the local node, marked in its status
SelfLine ==
    <<"1", ".", "5", " ", "h", "5", " ", "u", " ", "l", " ", "-", " ">>
        \o Self
\* "1.6 Selfie u l -": an online remote peer whose name holds the word
SelfNamedLine ==
    <<"1", ".", "6", " ">> \o Self \o <<"i", "e", " ", "u", " ", "l", " ", "-">>
\* "  #1.7 h7 u l -": a comment behind white space
IndentedComment ==
    <<" ", " ", "#", "1", ".", "7", " ", "h", "7", " ", "u", " ", "l", " ",
      "-">>

StatusLines ==
    {PeerLine(1), FourFieldLine, ThreeFieldLine, ShortLine, OfflineLine,
     OfflineNamedLine, SelfLine, SelfNamedLine, CommentLine, IndentedComment,
     BlankLine}

\* every listing of up to MaxLines of these lines
StatusPool == UNION {[1..n -> StatusLines] : n \in 0..MaxLines}

(***************************************************************************)
(* Probe output: the combined output of "tailscale ping", split on "\n".   *)
(* A line is the sequence of the markers it carries, left to right:        *)
(*   via <ip>:<port>   ip = the four digit runs as numbers, port = text    *)
(*   in <n>ms          ms = the digit run, as a sequence of digits         *)
(***************************************************************************)
Via(a, b, c, d, port) == [k |-> "via", ip |-> <<a, b, c, d>>, port |-> port, ms |-> <<>>]
In(ms) == [k |-> "in", ip |-> <<>>, port |-> <<>>, ms |-> ms]

Port41641 == <<"4", "1", "6", "4", "1">>
Port53 == <<"5", "3">>

\* the transcript of spec.md section 8: 203.0.113.5:41641, samples 17 22 19
OutExample ==
    << <<Via(203, 0, 113, 5, Port41641), In(<<1, 7>>)>>,
       <<In(<<2, 2>>)>>, <<In(<<1, 9>>)>> >>
\* the same egress address, slower
OutSameSlow == << <<Via(203, 0, 113, 5, Port41641), In(<<4, 0>>)>> >>
OutOther == << <<Via(8, 8, 8, 8, Port53), In(<<5>>)>> >>
\* an egress address and no latency sample
OutOtherNoSample == << <<Via(8, 8, 8, 8, Port53)>> >>
OutPrivate == << <<Via(10, 1, 2, 3, Port53), In(<<7>>)>> >>
\* matched by the pattern, rejected by net.ParseIP
OutInvalid == << <<Via(999, 1, 1, 1, Port53), In(<<6>>)>> >>
\* no via marker at all (relayed through DERP)
OutNoVia == << <<In(<<3, 0>>)>> >>
\* two via lines with different addresses, two samples on one line
OutTwoVia ==
    << <<Via(100, 72, 0, 1, Port53), In(<<3>>)>>,
       <<Via(8, 8, 8, 8, Port53), In(<<4>>), In(<<6>>)>> >>

\* the outputs a probe may produce in a run of the whole program
ProbeOutputs == {OutExample, OutTwoVia}

\* the outputs a probe may have produced when ranking starts
RankOutputs ==
    {OutExample, OutSameSlow, OutOther, OutOtherNoSample, OutPrivate,
     OutInvalid, OutNoVia, OutTwoVia}

\* regexp.FindStringSubmatch: the leftmost match of the line, or none
RECURSIVE FirstOf(_, _)
FirstOf(line, kind) ==
    IF line = <<>> THEN <<>>
    ELSE IF Head(line).k = kind THEN <<Head(line)>>
    ELSE FirstOf(Tail(line), kind)

\* timeout variant: `via (ip):(port) in (n)ms`, a via marker directly
\* followed by a latency marker
RECURSIVE FirstViaIn(_)
FirstViaIn(line) ==
    IF Len(line) < 2 THEN <<>>
    ELSE IF line[1].k = "via" /\ line[2].k = "in" THEN <<line[1]>>
    ELSE FirstViaIn(Tail(line))

(***************************************************************************)
(* pingIP.                                                                 *)
(***************************************************************************)
MaxInt32 == 2147483647

\* atomic.AddInt32: two's complement wrap-around at 32 bits
AddInt32(c, d) ==
    IF c > MaxInt32 - d THEN (c - MaxInt32) + (d - MaxInt32) - 2 ELSE c + d

\* the result of cmd.CombinedOutput(): an error, or the output's lines
CmdError == [err |-> TRUE, lines |-> <<>>]
CmdResults == {CmdError} \cup {[err |-> FALSE, lines |-> o] : o \in ProbeOutputs}

\* what ip-api.com answers for an address; getIPInfo returns info.ISP
ISPLabel(ip) == <<"AS">> \o ip

\* one outcome of getIPInfo per via line of an output: TRUE = err == nil
MaxViaLines == 2
Lookups == [1..MaxViaLines -> BOOLEAN]
NoLookups == [i \in 1..MaxViaLines |-> FALSE]

\* the loop over the lines in the in-place variants; nvia counts the via
\* lines seen so far and selects the outcome of the next lookup
RECURSIVE ParseLines(_, _, _, _, _)
ParseLines(v, result, lines, lk, nvia) ==
    IF lines = <<>> THEN result
    ELSE
      LET line == Head(lines)
          m1 == FirstOf(line, "via")
          m2 == FirstOf(line, "in")
          r1 == IF m1 = <<>> THEN result
                ELSE LET r == [result EXCEPT !.externalIP = m1[1].ip,
                                             !.port = m1[1].port]
                     IN  IF v = "letter" /\ lk[nvia + 1]
                         THEN [r EXCEPT !.isp = ISPLabel(r.externalIP)]
                         ELSE r
          r2 == IF m2 = <<>> THEN r1
                ELSE [r1 EXCEPT !.pings = Append(r1.pings, m2[1].ms)]
      IN  ParseLines(v, r2, Tail(lines), lk,
                     IF m1 = <<>> THEN nvia ELSE nvia + 1)

\* the same loop up to the next call of getIPInfo: the lines without a via
\* marker are consumed; on a via line externalIP and port are assigned and
\* the loop stands inside getIPInfo (rest begins with that line, whose
\* latency marker is matched after the lookup has returned)
RECURSIVE ParseToVia(_, _)
ParseToVia(result, lines) ==
    IF lines = <<>> THEN [result |-> result, rest |-> <<>>, lookup |-> FALSE]
    ELSE
      LET line == Head(lines)
          m1 == FirstOf(line, "via")
          m2 == FirstOf(line, "in")
      IN  IF m1 # <<>>
          THEN [result |-> [result EXCEPT !.externalIP = m1[1].ip,
                                          !.port = m1[1].port],
                rest |-> lines, lookup |-> TRUE]
          ELSE ParseToVia(IF m2 = <<>> THEN result
                          ELSE [result EXCEPT
                                   !.pings = Append(result.pings, m2[1].ms)],
                          Tail(lines))

\* the rest of the iteration once getIPInfo has returned (ok: err == nil),
\* and the loop up to the next call
AfterLookup(result, rest, ok) ==
    LET m2 == FirstOf(Head(rest), "in")
        r1 == IF ok THEN [result EXCEPT !.isp = ISPLabel(result.externalIP)]
              ELSE result
        r2 == IF m2 = <<>> THEN r1
              ELSE [r1 EXCEPT !.pings = Append(r1.pings, m2[1].ms)]
    IN  ParseToVia(r2, Tail(rest))

\* PingIPInPlace returning on the command's error without the AddInt32
PingIPInPlaceNoAddOnError(v, result, os, out, lk) ==
    IF os \notin {"windows", "linux", "darwin"}
    THEN [result |-> result, add |-> 1]
    ELSE IF out.err
    THEN [result |-> result, add |-> 0]
    ELSE [result |-> ParseLines(v, result, out.lines, lk, 0), add |-> 1]

\* pingIP of the in-place variants: the record it leaves and the number of
\* atomic.AddInt32(completed, 1) calls on the path taken
PingIPInPlace(v, result, os, out, lk) ==
    IF os \notin {"windows", "linux", "darwin"}
    THEN [result |-> result, add |-> 1]
    ELSE IF out.err
    THEN [result |-> result, add |-> 1]
    ELSE [result |-> ParseLines(v, result, out.lines, lk, 0), add |-> 1]

NA == <<"N", "/", "A">>

\* the loop over the lines in the timeout variant
RECURSIVE ParseLinesT(_, _)
ParseLinesT(result, lines) ==
    IF lines = <<>> THEN result
    ELSE
      LET line == Head(lines)
          m1 == FirstViaIn(line)
          m2 == FirstOf(line, "in")
          r1 == IF m1 = <<>> THEN result
                ELSE [result EXCEPT !.externalIP = m1[1].ip,
                                    !.port = m1[1].port]
          r2 == IF m2 = <<>> THEN r1
                ELSE [r1 EXCEPT !.pings = Append(r1.pings, m2[1].ms)]
      IN  ParseLinesT(r2, Tail(lines))

\* pingIP of the timeout variant up to the send: the result it will send
\* (send = FALSE on the error path) and the number of AddInt32 calls
PingIPTimeout(ip, out) ==
    IF out.err
    THEN [send |-> FALSE, result |-> <<>>, add |-> 1]
    ELSE LET r == ParseLinesT([host |-> ip, externalIP |-> <<>>,
                               port |-> <<>>, pings |-> <<>>], out.lines)
             r1 == IF r.externalIP = <<>> THEN [r EXCEPT !.externalIP = NA]
                   ELSE r
             r2 == IF r1.port = <<>> THEN [r1 EXCEPT !.port = NA] ELSE r1
         IN  [send |-> TRUE, result |-> r2, add |-> 1]

\* the loop over the lines in the channel variant (main.go:466-474)
RECURSIVE ParseLinesC(_, _)
ParseLinesC(result, lines) ==
    IF lines = <<>> THEN result
    ELSE
      LET line == Head(lines)
          m1 == FirstViaIn(line)
          m2 == FirstOf(line, "in")
          r1 == IF m1 = <<>> THEN result
                ELSE [result EXCEPT !.publicIP = m1[1].ip,
                                    !.port = m1[1].port]
          r2 == IF m2 = <<>> THEN r1
                ELSE [r1 EXCEPT !.pings = Append(r1.pings, m2[1].ms)]
      IN  ParseLinesC(r2, Tail(lines))

\* pingIP of the channel variant up to the send (send = FALSE: the command
\* failed and pingIP returned)
PingIPChan(ip, out) ==
    IF out.err
    THEN [send |-> FALSE, result |-> <<>>]
    ELSE [send |-> TRUE,
          result |-> ParseLinesC([host |-> ip, publicIP |-> <<>>,
                                  port |-> <<>>, pings |-> <<>>], out.lines)]

(***************************************************************************)
(* isPublicIP.                                                             *)
(***************************************************************************)
Pow2(n) == CASE n = 0 -> 1 [] n = 1 -> 2 [] n = 2 -> 4 [] n = 3 -> 8
             [] n = 4 -> 16 [] n = 5 -> 32 [] n = 6 -> 64 [] n = 7 -> 128
             [] OTHER -> 256

\* net.ParseIP on dotted digits: four decimal octets of at most 255
ParseIP(ip) == Len(ip) = 4 /\ \A k \in 1..4 : ip[k] \in 0..255

\* the number of mask bits that fall into octet k of a /bits prefix
MaskBits(bits, k) ==
    IF bits - 8 * (k - 1) < 0 THEN 0
    ELSE IF bits - 8 * (k - 1) > 8 THEN 8 ELSE bits - 8 * (k - 1)

\* (*IPNet).Contains: the address and the network agree under the mask
BlockContains(block, ip) ==
    \A k \in 1..4 :
        LET drop == Pow2(8 - MaskBits(block.bits, k))
        IN  ip[k] \div drop = block.net[k] \div drop

\* privateBlocks with 172.16.0.0/16 in the place of 172.16.0.0/12
privateBlocksNarrow172 ==
    << [net |-> <<10, 0, 0, 0>>, bits |-> 8],
       [net |-> <<127, 0, 0, 0>>, bits |-> 8],
       [net |-> <<172, 16, 0, 0>>, bits |-> 16],
       [net |-> <<192, 168, 0, 0>>, bits |-> 16],
       [net |-> <<169, 254, 0, 0>>, bits |-> 16],
       [net |-> <<100, 64, 0, 0>>, bits |-> 10] >>

privateBlocks ==
    << [net |-> <<10, 0, 0, 0>>, bits |-> 8],
       [net |-> <<127, 0, 0, 0>>, bits |-> 8],
       [net |-> <<172, 16, 0, 0>>, bits |-> 12],
       [net |-> <<192, 168, 0, 0>>, bits |-> 16],
       [net |-> <<169, 254, 0, 0>>, bits |-> 16],
       [net |-> <<100, 64, 0, 0>>, bits |-> 10] >>

\* isPublicIP with the loop over privateBlocks starting one block late
isPublicIPSkipsFirstBlock(ip) ==
    IF ~ParseIP(ip) THEN FALSE
    ELSE ~\E b \in 2..Len(privateBlocks) : BlockContains(privateBlocks[b], ip)

isPublicIP(ip) ==
    IF ~ParseIP(ip) THEN FALSE
    ELSE ~\E b \in 1..Len(privateBlocks) : BlockContains(privateBlocks[b], ip)

(***************************************************************************)
(* calculateAverage.  A float64 quotient of two small integers is kept as  *)
(* the fraction num/den; two such quotients compare as the fractions do.   *)
(***************************************************************************)
RECURSIVE StripZeros(_)
StripZeros(ds) == IF ds # <<>> /\ Head(ds) = 0 THEN StripZeros(Tail(ds)) ELSE ds

RECURSIVE LexLess(_, _)
LexLess(a, b) ==
    IF b = <<>> THEN FALSE
    ELSE IF a = <<>> THEN TRUE
    ELSE IF Head(a) # Head(b) THEN Head(a) < Head(b)
    ELSE LexLess(Tail(a), Tail(b))

MaxInt64Digits == <<9, 2, 2, 3, 3, 7, 2, 0, 3, 6, 8, 5, 4, 7, 7, 5, 8, 0, 7>>

\* whether the digit run is at most math.MaxInt64
InIntRange(ds) ==
    LET d == StripZeros(ds) IN
    \/ Len(d) < Len(MaxInt64Digits)
    \/ Len(d) = Len(MaxInt64Digits) /\ ~LexLess(MaxInt64Digits, d)

RECURSIVE DigitsValue(_)
DigitsValue(ds) ==
    IF ds = <<>> THEN 0
    ELSE 10 * DigitsValue(SubSeq(ds, 1, Len(ds) - 1)) + ds[Len(ds)]

\* strconv.Atoi on a digit run: a range error beyond the int range
Atoi(ds) ==
    IF InIntRange(ds) THEN [err |-> FALSE, val |-> DigitsValue(ds)]
    ELSE [err |-> TRUE, val |-> 0]

RECURSIVE SumPings(_)
SumPings(pings) ==
    IF pings = <<>> THEN 0
    ELSE LET a == Atoi(Head(pings)) IN
         (IF a.err THEN 0 ELSE a.val) + SumPings(Tail(pings))

\* part_000 and main.go: 0 for no samples
calculateAverage(pings) ==
    IF Len(pings) = 0 THEN [nan |-> FALSE, num |-> 0, den |-> 1]
    ELSE [nan |-> FALSE, num |-> SumPings(pings), den |-> Len(pings)]

\* part_001: no guard, 0/0 is NaN
calculateAverageT(pings) ==
    IF Len(pings) = 0 THEN [nan |-> TRUE, num |-> 0, den |-> 1]
    ELSE [nan |-> FALSE, num |-> SumPings(pings), den |-> Len(pings)]

\* float64 "<": false when either side is NaN
AvgLess(a, b) == ~a.nan /\ ~b.nan /\ a.num * b.den < b.num * a.den

(***************************************************************************)
(* Grouping.  groupMap and groupCounts are Go maps keyed by the address    *)
(* text: functions on the set of keys present.                             *)
(***************************************************************************)
MapPut(m, key, val) ==
    [x \in DOMAIN m \cup {key} |-> IF x = key THEN val ELSE m[x]]
EmptyMap == [x \in {} |-> 0]

RECURSIVE Decimal(_)
\* strconv's decimal text of n >= 0, as character codes
Decimal(n) ==
    IF n < 10 THEN <<48 + n>> ELSE Decimal(n \div 10) \o <<48 + (n % 10)>>

\* fmt.Sprintf("%s (%d)", string(rune('A'+(n-1))), count), as the sequence
\* of the character codes of the text; "" is the empty sequence
numberToLetterWithCount(n, count) ==
    IF n <= 0 THEN <<>>
    ELSE <<65 + (n - 1), 32, 40>> \o Decimal(count) \o <<41>>

\* AssignGroupsInt without "groupCounter++"
RECURSIVE AssignGroupsIntNoIncrement(_, _, _, _)
AssignGroupsIntNoIncrement(list, i, groupMap, groupCounter) ==
    IF i > Len(list) THEN list
    ELSE
      LET externalIP == list[i].externalIP IN
      IF externalIP = <<>> \/ ~isPublicIP(externalIP)
      THEN AssignGroupsIntNoIncrement(list, i + 1, groupMap, groupCounter)
      ELSE
        LET fresh == externalIP \notin DOMAIN groupMap
            gm == IF fresh THEN MapPut(groupMap, externalIP, groupCounter)
                  ELSE groupMap
        IN  AssignGroupsIntNoIncrement([list EXCEPT ![i].group = gm[externalIP]],
                                       i + 1, gm, groupCounter)

\* part_000:231-245, the loop from index i on
RECURSIVE AssignGroupsInt(_, _, _, _)
AssignGroupsInt(list, i, groupMap, groupCounter) ==
    IF i > Len(list) THEN list
    ELSE
      LET externalIP == list[i].externalIP IN
      IF externalIP = <<>> \/ ~isPublicIP(externalIP)
      THEN AssignGroupsInt(list, i + 1, groupMap, groupCounter)
      ELSE
        LET fresh == externalIP \notin DOMAIN groupMap
            gm == IF fresh THEN MapPut(groupMap, externalIP, groupCounter)
                  ELSE groupMap
            gc == IF fresh THEN groupCounter + 1 ELSE groupCounter
        IN  AssignGroupsInt([list EXCEPT ![i].group = gm[externalIP]],
                            i + 1, gm, gc)

\* CountGroups storing 1 for an address it has already counted
RECURSIVE CountGroupsAlwaysOne(_, _, _)
CountGroupsAlwaysOne(list, i, groupCounts) ==
    IF i > Len(list) THEN groupCounts
    ELSE
      LET ip == list[i].externalIP IN
      IF ip # <<>> /\ isPublicIP(ip)
      THEN CountGroupsAlwaysOne(list, i + 1, MapPut(groupCounts, ip, 1))
      ELSE CountGroupsAlwaysOne(list, i + 1, groupCounts)

\* main.go:293-298, first pass: devices per external IP
RECURSIVE CountGroups(_, _, _)
CountGroups(list, i, groupCounts) ==
    IF i > Len(list) THEN groupCounts
    ELSE
      LET ip == list[i].externalIP IN
      IF ip # <<>> /\ isPublicIP(ip)
      THEN CountGroups(list, i + 1,
               MapPut(groupCounts, ip,
                      IF ip \in DOMAIN groupCounts THEN groupCounts[ip] + 1
                      ELSE 1))
      ELSE CountGroups(list, i + 1, groupCounts)

\* main.go:300-312, second pass
RECURSIVE AssignGroupsLetter(_, _, _, _, _)
AssignGroupsLetter(list, i, groupMap, groupCounter, groupCounts) ==
    IF i > Len(list) THEN list
    ELSE
      LET externalIP == list[i].externalIP IN
      IF externalIP = <<>> \/ ~isPublicIP(externalIP)
      THEN AssignGroupsLetter(list, i + 1, groupMap, groupCounter, groupCounts)
      ELSE
        LET fresh == externalIP \notin DOMAIN groupMap
            gm == IF fresh THEN MapPut(groupMap, externalIP, groupCounter)
                  ELSE groupMap
            gc == IF fresh THEN groupCounter + 1 ELSE groupCounter
            count == groupCounts[externalIP]
        IN  AssignGroupsLetter(
                [list EXCEPT ![i].group =
                     numberToLetterWithCount(gm[externalIP], count)],
                i + 1, gm, gc, groupCounts)

AssignGroups(v, list) ==
    IF v = "int" THEN AssignGroupsInt(list, 1, EmptyMap, 1)
    ELSE AssignGroupsLetter(list, 1, EmptyMap, 1,
                            CountGroups(list, 1, EmptyMap))

(***************************************************************************)
(* Ranking.  sort.Slice is not stable: it may return any arrangement in    *)
(* which no element is "less" than one placed before it; when "less" is no *)
(* strict weak order (a NaN mean) the order it leaves is unspecified.      *)
(***************************************************************************)
\* LessInPlace with the means compared the wrong way round
LessInPlaceDescending(v, x, y) ==
    IF x.group # y.group
    THEN IF v = "int" THEN x.group < y.group ELSE LexLess(x.group, y.group)
    ELSE AvgLess(calculateAverage(y.pings), calculateAverage(x.pings))

\* the comparison function of the in-place variants
LessInPlace(v, x, y) ==
    IF x.group # y.group
    THEN IF v = "int" THEN x.group < y.group ELSE LexLess(x.group, y.group)
    ELSE AvgLess(calculateAverage(x.pings), calculateAverage(y.pings))

\* the comparison function of the timeout variant
LessTimeout(x, y) ==
    AvgLess(calculateAverageT(x.pings), calculateAverageT(y.pings))

Arrangements(list) ==
    {[i \in 1..Len(list) |-> list[p[i]]] : p \in Permutations(1..Len(list))}

SortInPlace(v, list) ==
    {s \in Arrangements(list) :
        \A i, j \in 1..Len(s) : i < j => ~LessInPlace(v, s[j], s[i])}

SortTimeout(list) ==
    IF \E i \in 1..Len(list) : calculateAverageT(list[i].pings).nan
    THEN Arrangements(list)
    ELSE {s \in Arrangements(list) :
            \A i, j \in 1..Len(s) : i < j => ~LessTimeout(s[j], s[i])}

\* the comparison function handed to sort.Slice
LessOf(v, x, y) ==
    IF v \in {"int", "letter"} THEN LessInPlace(v, x, y) ELSE LessTimeout(x, y)

\* What sort.Slice runs on a slice of fewer than 12 elements, an insertion
\* sort: "for j := i; j > a && less(j, j-1); j-- { swap(j, j-1) }"
RECURSIVE SinkAt(_, _, _)
SinkAt(v, list, j) ==
    IF j > 1 /\ LessOf(v, list[j], list[j - 1])
    THEN SinkAt(v, [list EXCEPT ![j] = list[j - 1], ![j - 1] = list[j]], j - 1)
    ELSE list

RECURSIVE insertionSort(_, _, _)
insertionSort(v, list, i) ==
    IF i > Len(list) THEN list
    ELSE insertionSort(v, SinkAt(v, list, i), i + 1)

(***************************************************************************)
(* The table handed to table.Render: one row per element of resultsList.   *)
(***************************************************************************)
DigitsText(ds) == [i \in 1..Len(ds) |-> DigitChar[ds[i] + 1]]
PingsText(pings, sep) == Join([i \in 1..Len(pings) |-> DigitsText(pings[i])], sep)

Row(v, i, result) ==
    CASE v = "int" ->
           [num |-> i,
            group |-> IF result.group > 0 THEN Decimal(result.group) ELSE <<>>,
            user |-> result.user, hostname |-> result.hostname,
            os |-> result.os, ip |-> result.ip,
            externalIP |-> result.externalIP, port |-> result.port,
            pings |-> PingsText(result.pings, <<" ">>)]
      [] v = "letter" ->
           [num |-> i, user |-> result.user, hostname |-> result.hostname,
            os |-> result.os, ip |-> result.ip, group |-> result.group,
            externalIP |-> result.externalIP, port |-> result.port,
            avg |-> calculateAverage(result.pings), isp |-> result.isp]
      [] v = "chan" ->
           [host |-> result.host, publicIP |-> result.publicIP,
            port |-> result.port,
            pings |-> PingsText(result.pings, <<",", " ">>)]
      [] OTHER ->
           [host |-> result.host, externalIP |-> result.externalIP,
            port |-> result.port,
            pings |-> PingsText(result.pings, <<",", " ">>)]

Rows(v, list) == [i \in 1..Len(list) |-> Row(v, i, list[i])]

(***************************************************************************)
(* State machine.                                                          *)
(***************************************************************************)
Variants == {"int", "letter", "timeout"}
InPlace == variant \in {"int", "letter"}
SupportedOS == {"windows", "linux", "darwin"}
\* main has not returned and the process has not died
Running == mainpc \notin {"returned", "panic"}
NoTable == [rendered |-> FALSE, rows |-> <<>>]

Init ==
    /\ variant \in Variants
    /\ goos \in {"linux", "plan9"}
    /\ cmdOutput \in StatusOutputs
    /\ mainpc = IF variant = "timeout" THEN "status" ELSE "check"
    /\ resultsList = <<>>
    /\ spawned = 0
    /\ gpc = <<>>
    /\ wg = 0
    /\ completed = 0
    /\ bar = 0
    /\ results = <<>>
    /\ resultsOpen = TRUE
    /\ collpc = "new"
    /\ closerpc = "new"
    /\ progpc = "new"
    /\ progressDone = FALSE
    /\ timerFired = FALSE
    /\ ips = <<>>
    /\ glocal = <<>>
    /\ raced = FALSE
    /\ stdout = <<>>
    /\ table = NoTable

timeoutVars == <<results, resultsOpen, collpc, closerpc, progpc, progressDone,
                 timerFired, ips, glocal, raced>>
\* the same without the goroutines' locals
channelVars == <<results, resultsOpen, collpc, closerpc, progpc, progressDone,
                 timerFired, ips, raced>>

\* in-place variants: the locals of a pingIP that has not run its command;
\* output = the lines of the combined output, rest = the lines the loop has
\* still to visit
NoLocals == [output |-> <<>>, rest |-> <<>>]

\* checkTailscale with the "return" after the error message left out
checkTailscaleGoesOn ==
    /\ InPlace /\ mainpc = "check"
    /\ \E runErr \in BOOLEAN :
         IF goos \notin SupportedOS \/ runErr
         THEN /\ stdout' = Append(stdout, [msg |-> "Error"])
              /\ mainpc' = "status"
         ELSE /\ mainpc' = "status"
              /\ UNCHANGED stdout
    /\ UNCHANGED <<variant, goos, cmdOutput, resultsList, spawned, gpc, wg, completed,
                   bar, table>>
    /\ UNCHANGED timeoutVars

\* main: err := checkTailscale(); the command's exit status is the
\* environment's choice
checkTailscale ==
    /\ InPlace /\ mainpc = "check"
    /\ \E runErr \in BOOLEAN :
         IF goos \notin SupportedOS \/ runErr
         THEN /\ stdout' = Append(stdout, [msg |-> "Error"])
              /\ mainpc' = "returned"
         ELSE /\ mainpc' = "status"
              /\ UNCHANGED stdout
    /\ UNCHANGED <<variant, goos, cmdOutput, resultsList, spawned, gpc, wg, completed,
                   bar, table>>
    /\ UNCHANGED timeoutVars

\* mainStatus without the "len(resultsList) == 0" check
mainStatusNoLenCheck ==
    /\ InPlace /\ mainpc = "status"
    /\ \E cmdErr \in BOOLEAN :
         IF goos \notin SupportedOS \/ cmdErr
         THEN /\ stdout' = Append(stdout,
                                [msg |-> "Error getting Tailscale status"])
              /\ mainpc' = "returned"
              /\ UNCHANGED <<resultsList, gpc, glocal>>
         ELSE LET list == getTailscaleStatus(variant, cmdOutput) IN
              /\ resultsList' = list
              /\ mainpc' = "spawn"
              /\ gpc' = [i \in 1..Len(list) |-> "new"]
              /\ glocal' = [i \in 1..Len(list) |-> NoLocals]
              /\ UNCHANGED stdout
    /\ UNCHANGED <<variant, goos, cmdOutput, spawned, wg, completed, bar, table>>
    /\ UNCHANGED channelVars

\* main: resultsList, err := getTailscaleStatus(), and the len check
mainStatus ==
    /\ InPlace /\ mainpc = "status"
    /\ \E cmdErr \in BOOLEAN :
         IF goos \notin SupportedOS \/ cmdErr
         THEN /\ stdout' = Append(stdout,
                                [msg |-> "Error getting Tailscale status"])
              /\ mainpc' = "returned"
              /\ UNCHANGED <<resultsList, gpc, glocal>>
         ELSE LET list == getTailscaleStatus(variant, cmdOutput) IN
              /\ resultsList' = list
              /\ IF Len(list) = 0
                 THEN /\ stdout' = Append(stdout,
                                      [msg |-> "No active Tailscale IPs found"])
                      /\ mainpc' = "returned"
                      /\ UNCHANGED <<gpc, glocal>>
                 ELSE /\ mainpc' = "spawn"
                      /\ gpc' = [i \in 1..Len(list) |-> "new"]
                      /\ glocal' = [i \in 1..Len(list) |-> NoLocals]
                      /\ UNCHANGED stdout
    /\ UNCHANGED <<variant, goos, cmdOutput, spawned, wg, completed, bar, table>>
    /\ UNCHANGED channelVars

\* main: one iteration of "for i := range resultsList { wg.Add(1); go ... }"
mainSpawn ==
    /\ InPlace /\ mainpc = "spawn"
    /\ IF spawned < Len(resultsList)
       THEN /\ spawned' = spawned + 1
            /\ wg' = wg + 1
            /\ gpc' = [gpc EXCEPT ![spawned + 1] = "go"]
            /\ UNCHANGED mainpc
       ELSE /\ mainpc' = "wait"
            /\ UNCHANGED <<spawned, wg, gpc>>
    /\ UNCHANGED <<variant, goos, cmdOutput, resultsList, completed, bar, stdout, table>>
    /\ UNCHANGED timeoutVars

\* pingIP handed the address of the record the loop variable stands at when
\* the goroutine runs, not the address of its own record
pingIPCapturesLoopVar(i) ==
    /\ InPlace /\ Running
    /\ i \in DOMAIN gpc /\ gpc[i] = "go"
    /\ \E out \in CmdResults :
         LET r == PingIPInPlace(variant, resultsList[spawned], goos, out,
                                NoLookups) IN
         /\ resultsList' = [resultsList EXCEPT ![spawned] = r.result]
         /\ glocal' = [glocal EXCEPT
                          ![i] = [output |-> out.lines, rest |-> <<>>]]
         /\ completed' = IF r.add = 1 THEN AddInt32(completed, 1) ELSE completed
         /\ gpc' = [gpc EXCEPT ![i] = "defer"]
    /\ UNCHANGED <<variant, goos, cmdOutput, mainpc, spawned, wg, bar, stdout, table>>
    /\ UNCHANGED channelVars

\* goroutine i: pingIP from the external command on.  The integer variant
\* and the paths that return early run to the end of the body; the letter
\* variant runs to its first call of getIPInfo, if there is one.
pingIP(i) ==
    /\ InPlace /\ Running
    /\ i \in DOMAIN gpc /\ gpc[i] = "go"
    /\ \E out \in CmdResults :
         IF variant = "letter" /\ goos \in SupportedOS /\ ~out.err
              /\ ParseToVia(resultsList[i], out.lines).lookup
         THEN LET p == ParseToVia(resultsList[i], out.lines) IN
              /\ resultsList' = [resultsList EXCEPT ![i] = p.result]
              /\ glocal' = [glocal EXCEPT
                               ![i] = [output |-> out.lines, rest |-> p.rest]]
              /\ gpc' = [gpc EXCEPT ![i] = "lookup"]
              /\ UNCHANGED completed
         ELSE LET r == PingIPInPlace(variant, resultsList[i], goos, out,
                                     NoLookups) IN
              /\ resultsList' = [resultsList EXCEPT ![i] = r.result]
              /\ glocal' = [glocal EXCEPT
                               ![i] = [output |-> out.lines, rest |-> <<>>]]
              /\ completed' =
                    IF r.add = 1 THEN AddInt32(completed, 1) ELSE completed
              /\ gpc' = [gpc EXCEPT ![i] = "defer"]
    /\ UNCHANGED <<variant, goos, cmdOutput, mainpc, spawned, wg, bar, stdout, table>>
    /\ UNCHANGED channelVars

\* goroutine i, letter variant: getIPInfo returns (the sleep, the request
\* and the decoding are over), the iteration ends and the loop goes on to
\* the next call of getIPInfo or to the AddInt32 after the loop
lookupReturn(i) ==
    /\ variant = "letter" /\ Running
    /\ i \in DOMAIN gpc /\ gpc[i] = "lookup"
    /\ \E ok \in BOOLEAN :
         LET p == AfterLookup(resultsList[i], glocal[i].rest, ok) IN
         /\ resultsList' = [resultsList EXCEPT ![i] = p.result]
         /\ glocal' = [glocal EXCEPT ![i].rest = p.rest]
         /\ IF p.lookup
            THEN UNCHANGED <<gpc, completed>>
            ELSE /\ gpc' = [gpc EXCEPT ![i] = "defer"]
                 /\ completed' = AddInt32(completed, 1)
    /\ UNCHANGED <<variant, goos, cmdOutput, mainpc, spawned, wg, bar, stdout, table>>
    /\ UNCHANGED channelVars

\* goroutine i: the deferred wg.Done()
wgDone(i) ==
    /\ InPlace /\ Running
    /\ i \in DOMAIN gpc /\ gpc[i] = "defer"
    /\ wg' = wg - 1
    /\ gpc' = [gpc EXCEPT ![i] = "bar"]
    /\ UNCHANGED <<variant, goos, cmdOutput, mainpc, resultsList, spawned, completed,
                   bar, stdout, table>>
    /\ UNCHANGED timeoutVars

\* goroutine i: bar.Add(1), after pingIP has returned
barAdd(i) ==
    /\ InPlace /\ Running
    /\ i \in DOMAIN gpc /\ gpc[i] = "bar"
    /\ bar' = bar + 1
    /\ gpc' = [gpc EXCEPT ![i] = "exit"]
    /\ UNCHANGED <<variant, goos, cmdOutput, mainpc, resultsList, spawned, wg, completed,
                   stdout, table>>
    /\ UNCHANGED timeoutVars

\* main: wg.Wait()
mainWait ==
    /\ InPlace /\ mainpc = "wait"
    /\ wg = 0
    /\ mainpc' = "group"
    /\ UNCHANGED <<variant, goos, cmdOutput, resultsList, spawned, gpc, wg, completed,
                   bar, stdout, table>>
    /\ UNCHANGED timeoutVars

\* main: the grouping pass
mainGroup ==
    /\ InPlace /\ mainpc = "group"
    /\ resultsList' = AssignGroups(variant, resultsList)
    /\ mainpc' = "sort"
    /\ UNCHANGED <<variant, goos, cmdOutput, spawned, gpc, wg, completed, bar, stdout,
                   table>>
    /\ UNCHANGED timeoutVars

\* main: sort.Slice(resultsList, ...)
mainSort ==
    /\ InPlace /\ mainpc = "sort"
    /\ resultsList' \in SortInPlace(variant, resultsList)
    /\ mainpc' = "render"
    /\ UNCHANGED <<variant, goos, cmdOutput, spawned, gpc, wg, completed, bar, stdout,
                   table>>
    /\ UNCHANGED timeoutVars

\* main: the table.Append loop, table.Render() and the return
mainRender ==
    /\ InPlace /\ mainpc = "render"
    /\ table' = [rendered |-> TRUE, rows |-> Rows(variant, resultsList)]
    /\ mainpc' = "returned"
    /\ UNCHANGED <<variant, goos, cmdOutput, resultsList, spawned, gpc, wg, completed,
                   bar, stdout>>
    /\ UNCHANGED timeoutVars

(***************************************************************************)
(* The timeout variant (part_001).                                         *)
(***************************************************************************)
Timeout == variant = "timeout"
\* the variants whose probes hand their result over a channel
Channelled == variant \in {"timeout", "chan"}
inPlaceVars == <<spawned, gpc, wg, completed, bar>>

\* main: ips, err := getTailscaleIPs(), the len check and the set-up up to
\* the progress bar.  On another OS cmd stays nil and cmd.Output() panics.
mainIPs ==
    /\ Timeout /\ mainpc = "status"
    /\ \E cmdErr \in BOOLEAN :
         IF goos \notin SupportedOS
         THEN /\ mainpc' = "panic"
              /\ UNCHANGED <<ips, gpc, glocal, stdout>>
         ELSE IF cmdErr
         THEN /\ stdout' = Append(stdout, [msg |-> "Error getting IPs"])
              /\ mainpc' = "returned"
              /\ UNCHANGED <<ips, gpc, glocal>>
         ELSE LET r == getTailscaleIPs(cmdOutput) IN
              IF r.panic
              THEN /\ mainpc' = "panic"
                   /\ UNCHANGED <<ips, gpc, glocal, stdout>>
              ELSE /\ ips' = r.ips
                   /\ IF Len(r.ips) = 0
                      THEN /\ stdout' = Append(stdout,
                                 [msg |-> "No active Tailscale IPs found"])
                           /\ mainpc' = "returned"
                           /\ UNCHANGED <<gpc, glocal>>
                      ELSE /\ mainpc' = "spawn"
                           /\ gpc' = [i \in 1..Len(r.ips) |-> "new"]
                           /\ glocal' = [i \in 1..Len(r.ips) |-> <<>>]
                           /\ UNCHANGED stdout
    /\ UNCHANGED <<variant, goos, cmdOutput, resultsList, spawned, wg, completed, bar,
                   results, resultsOpen, collpc, closerpc, progpc,
                   progressDone, timerFired, raced, table>>

\* the timer of time.After(10 * time.Second), created before the goroutines
timerFires ==
    /\ Timeout /\ mainpc \in {"spawn", "select"} /\ ~timerFired
    /\ timerFired' = TRUE
    /\ UNCHANGED <<variant, goos, cmdOutput, mainpc, resultsList, results, resultsOpen,
                   collpc, closerpc, progpc, progressDone, ips, glocal, raced,
                   stdout, table>>
    /\ UNCHANGED inPlaceVars

\* main: one iteration of "for _, ip := range ips { wg.Add(1); go pingIP }",
\* and after the loop the three "go func()" statements
mainSpawnT ==
    /\ Timeout /\ mainpc = "spawn"
    /\ IF spawned < Len(ips)
       THEN /\ spawned' = spawned + 1
            /\ wg' = wg + 1
            /\ gpc' = [gpc EXCEPT ![spawned + 1] = "go"]
            /\ UNCHANGED <<mainpc, collpc, progpc, closerpc>>
       ELSE /\ mainpc' = "select"
            /\ collpc' = "run" /\ progpc' = "run" /\ closerpc' = "run"
            /\ UNCHANGED <<spawned, wg, gpc>>
    /\ UNCHANGED <<variant, goos, cmdOutput, resultsList, completed, bar, results,
                   resultsOpen, progressDone, timerFired, ips, glocal, raced,
                   stdout, table>>

\* goroutine i: pingIP up to (not including) "results <- result"
pingIPT(i) ==
    /\ Timeout /\ Running
    /\ i \in DOMAIN gpc /\ gpc[i] = "go"
    /\ \E out \in CmdResults :
         LET r == PingIPTimeout(ips[i], out) IN
         /\ completed' = IF r.add = 1 THEN AddInt32(completed, 1) ELSE completed
         /\ glocal' = [glocal EXCEPT ![i] = r.result]
         /\ gpc' = [gpc EXCEPT ![i] = IF r.send THEN "send" ELSE "defer"]
    /\ UNCHANGED <<variant, goos, cmdOutput, mainpc, resultsList, spawned, wg, bar,
                   results, resultsOpen, collpc, closerpc, progpc,
                   progressDone, timerFired, ips, raced, stdout, table>>

\* goroutine i: results <- result.  The buffer holds len(ips) values; a send
\* on a closed channel panics.
sendResult(i) ==
    /\ Channelled /\ Running
    /\ i \in DOMAIN gpc /\ gpc[i] = "send"
    /\ Len(results) < Len(ips)
    /\ IF resultsOpen
       THEN /\ results' = Append(results, glocal[i])
            /\ gpc' = [gpc EXCEPT ![i] = "defer"]
            /\ UNCHANGED mainpc
       ELSE /\ mainpc' = "panic"
            /\ UNCHANGED <<results, gpc>>
    /\ UNCHANGED <<variant, goos, cmdOutput, resultsList, spawned, wg, completed, bar,
                   resultsOpen, collpc, closerpc, progpc, progressDone,
                   timerFired, ips, glocal, raced, stdout, table>>

\* goroutine i: the deferred wg.Done()
wgDoneT(i) ==
    /\ Channelled /\ Running
    /\ i \in DOMAIN gpc /\ gpc[i] = "defer"
    /\ wg' = wg - 1
    /\ gpc' = [gpc EXCEPT ![i] = "exit"]
    /\ UNCHANGED <<variant, goos, cmdOutput, mainpc, resultsList, spawned, completed, bar,
                   stdout, table>>
    /\ UNCHANGED timeoutVars

\* the external command of goroutine i never returns
probeHangs(i) ==
    /\ Running
    /\ i \in DOMAIN gpc /\ gpc[i] = "go"
    /\ gpc' = [gpc EXCEPT ![i] = "hung"]
    /\ UNCHANGED <<variant, goos, cmdOutput, mainpc, resultsList, spawned, wg, completed,
                   bar, stdout, table>>
    /\ UNCHANGED timeoutVars

\* collector: one iteration of "for result := range results": the receive
\* and the append.  main reads resultsList without synchronisation once it
\* has left the select by the timeout case.
collect ==
    /\ Timeout /\ Running /\ collpc = "run"
    /\ results # <<>>
    /\ resultsList' = Append(resultsList, Head(results))
    /\ results' = Tail(results)
    /\ raced' = (raced \/ mainpc = "sorting")
    /\ UNCHANGED <<variant, goos, cmdOutput, mainpc, resultsOpen, collpc, closerpc,
                   progpc, progressDone, timerFired, ips, glocal, stdout,
                   table>>
    /\ UNCHANGED inPlaceVars

\* collector: the range loop ends on the closed, drained channel
collectEnd ==
    /\ Timeout /\ Running /\ collpc = "run"
    /\ results = <<>> /\ ~resultsOpen
    /\ collpc' = "done"
    /\ UNCHANGED <<variant, goos, cmdOutput, mainpc, resultsList, results, resultsOpen,
                   closerpc, progpc, progressDone, timerFired, ips, glocal,
                   raced, stdout, table>>
    /\ UNCHANGED inPlaceVars

\* the closer without its wg.Wait()
closeResultsNoWait ==
    /\ Channelled /\ Running /\ closerpc = "run"
    /\ resultsOpen' = FALSE
    /\ closerpc' = "exit"
    /\ UNCHANGED <<variant, goos, cmdOutput, mainpc, resultsList, results, collpc, progpc,
                   progressDone, timerFired, ips, glocal, raced, stdout, table>>
    /\ UNCHANGED inPlaceVars

\* closer: wg.Wait(); close(results)
closeResults ==
    /\ Channelled /\ Running /\ closerpc = "run"
    /\ wg = 0
    /\ resultsOpen' = FALSE
    /\ closerpc' = "exit"
    /\ UNCHANGED <<variant, goos, cmdOutput, mainpc, resultsList, results, collpc, progpc,
                   progressDone, timerFired, ips, glocal, raced, stdout, table>>
    /\ UNCHANGED inPlaceVars

\* progress reporter: case <-ticker.C: bar.Set(int(atomic.LoadInt32(...)))
progressTick ==
    /\ Timeout /\ Running /\ progpc = "run"
    /\ bar' = completed
    /\ UNCHANGED <<variant, goos, cmdOutput, mainpc, resultsList, spawned, gpc, wg,
                   completed, stdout, table>>
    /\ UNCHANGED timeoutVars

\* progress reporter: case <-progressDone: bar.Finish(); return
progressFinish ==
    /\ Timeout /\ Running /\ progpc = "run"
    /\ progressDone
    /\ bar' = Len(ips)
    /\ progpc' = "exit"
    /\ UNCHANGED <<variant, goos, cmdOutput, mainpc, resultsList, spawned, gpc, wg,
                   completed, results, resultsOpen, collpc, closerpc,
                   progressDone, timerFired, ips, glocal, raced, stdout, table>>

\* main: select, case <-timeout
selectTimeout ==
    /\ Timeout /\ mainpc = "select"
    /\ timerFired
    /\ stdout' = Append(stdout, [msg |-> "Timeout reached",
                                 collected |-> completed, total |-> Len(ips)])
    /\ mainpc' = "close"
    /\ UNCHANGED <<variant, goos, cmdOutput, resultsList, table>>
    /\ UNCHANGED timeoutVars
    /\ UNCHANGED inPlaceVars

\* main: select, case <-resultsDone, the rendezvous with the collector's
\* "resultsDone <- true"
selectDone ==
    /\ Timeout /\ mainpc = "select"
    /\ collpc = "done"
    /\ collpc' = "exit"
    /\ stdout' = Append(stdout, [msg |-> "All results collected successfully"])
    /\ mainpc' = "close"
    /\ UNCHANGED <<variant, goos, cmdOutput, resultsList, results, resultsOpen, closerpc,
                   progpc, progressDone, timerFired, ips, glocal, raced, table>>
    /\ UNCHANGED inPlaceVars

\* main: close(progressDone)
closeProgress ==
    /\ Timeout /\ mainpc = "close"
    /\ progressDone' = TRUE
    /\ mainpc' = "sort"
    /\ UNCHANGED <<variant, goos, cmdOutput, resultsList, results, resultsOpen, collpc,
                   closerpc, progpc, timerFired, ips, glocal, raced, stdout,
                   table>>
    /\ UNCHANGED inPlaceVars

\* main: sort.Slice(resultsList, ...) is entered: the slice header is read
sortBegin ==
    /\ Timeout /\ mainpc = "sort"
    /\ mainpc' = "sorting"
    /\ raced' = FALSE
    /\ UNCHANGED <<variant, goos, cmdOutput, resultsList, results, resultsOpen, collpc,
                   closerpc, progpc, progressDone, timerFired, ips, glocal,
                   stdout, table>>
    /\ UNCHANGED inPlaceVars

\* main: sort.Slice returns.  An append that overlapped the sort is a data
\* race on the slice header and on the elements, which the Go memory model
\* leaves unspecified (a torn header, "less" reading the regrown array while
\* the swaps go to the old one).  The outcomes kept here: the process dies,
\* or the sort returns with the elements in some order.
sortEnd ==
    /\ Timeout /\ mainpc = "sorting"
    /\ IF raced
       THEN \E crash \in BOOLEAN :
              IF crash
              THEN mainpc' = "panic" /\ UNCHANGED resultsList
              ELSE mainpc' = "render"
                   /\ resultsList' \in Arrangements(resultsList)
       ELSE mainpc' = "render" /\ resultsList' \in SortTimeout(resultsList)
    /\ UNCHANGED <<variant, goos, cmdOutput, results, resultsOpen, collpc, closerpc,
                   progpc, progressDone, timerFired, ips, glocal, raced,
                   stdout, table>>
    /\ UNCHANGED inPlaceVars

\* main: "for _, result := range resultsList" (the range expression is
\* evaluated once), table.Render(), and main returns
renderT ==
    /\ Timeout /\ mainpc = "render"
    /\ table' = [rendered |-> TRUE, rows |-> Rows(variant, resultsList)]
    /\ mainpc' = "returned"
    /\ UNCHANGED <<variant, goos, cmdOutput, resultsList, results, resultsOpen, collpc,
                   closerpc, progpc, progressDone, timerFired, ips, glocal,
                   raced, stdout>>
    /\ UNCHANGED inPlaceVars

(***************************************************************************)
(* The channel variant (main.go:397-537): no counter, no collector, no     *)
(* timer; main itself ranges over the results channel.                     *)
(***************************************************************************)
Chan == variant = "chan"

InitChan ==
    /\ variant = "chan"
    /\ goos \in {"linux", "plan9"}
    /\ cmdOutput \in StatusOutputsC
    /\ mainpc = "status"
    /\ resultsList = <<>>
    /\ spawned = 0
    /\ gpc = <<>>
    /\ wg = 0
    /\ completed = 0
    /\ bar = 0
    /\ results = <<>>
    /\ resultsOpen = TRUE
    /\ collpc = "new"
    /\ closerpc = "new"
    /\ progpc = "new"
    /\ progressDone = FALSE
    /\ timerFired = FALSE
    /\ ips = <<>>
    /\ glocal = <<>>
    /\ raced = FALSE
    /\ stdout = <<>>
    /\ table = NoTable

\* main: ips, err := getTailscaleIPs() and the len check
mainIPsC ==
    /\ Chan /\ mainpc = "status"
    /\ \E cmdErr \in BOOLEAN :
         IF cmdErr
         THEN /\ stdout' = Append(stdout, [msg |-> "Error getting IPs"])
              /\ mainpc' = "returned"
              /\ UNCHANGED <<ips, gpc, glocal>>
         ELSE LET r == getTailscaleIPsC(cmdOutput) IN
              /\ ips' = r
              /\ IF Len(r) = 0
                 THEN /\ stdout' = Append(stdout,
                            [msg |-> "No active Tailscale IPs found"])
                      /\ mainpc' = "returned"
                      /\ UNCHANGED <<gpc, glocal>>
                 ELSE /\ mainpc' = "spawn"
                      /\ gpc' = [i \in 1..Len(r) |-> "new"]
                      /\ glocal' = [i \in 1..Len(r) |-> <<>>]
                      /\ UNCHANGED stdout
    /\ UNCHANGED <<variant, goos, cmdOutput, resultsList, spawned, wg, completed, bar,
                   results, resultsOpen, collpc, closerpc, progpc,
                   progressDone, timerFired, raced, table>>

\* main: one iteration of "for _, ip := range ips { wg.Add(1); go pingIP }",
\* and after the loop "go func() { wg.Wait(); close(results) }()"
mainSpawnC ==
    /\ Chan /\ mainpc = "spawn"
    /\ IF spawned < Len(ips)
       THEN /\ spawned' = spawned + 1
            /\ wg' = wg + 1
            /\ gpc' = [gpc EXCEPT ![spawned + 1] = "go"]
            /\ UNCHANGED <<mainpc, closerpc>>
       ELSE /\ mainpc' = "range"
            /\ closerpc' = "run"
            /\ UNCHANGED <<spawned, wg, gpc>>
    /\ UNCHANGED <<variant, goos, cmdOutput, resultsList, completed, bar, results,
                   resultsOpen, collpc, progpc, progressDone, timerFired, ips,
                   glocal, raced, stdout, table>>

\* goroutine i: pingIP up to (not including) "results <- result"
pingIPC(i) ==
    /\ Chan /\ Running
    /\ i \in DOMAIN gpc /\ gpc[i] = "go"
    /\ \E out \in CmdResults :
         LET r == PingIPChan(ips[i], out) IN
         /\ glocal' = [glocal EXCEPT ![i] = r.result]
         /\ gpc' = [gpc EXCEPT ![i] = IF r.send THEN "send" ELSE "defer"]
    /\ UNCHANGED <<variant, goos, cmdOutput, mainpc, resultsList, spawned, wg, completed,
                   bar, results, resultsOpen, collpc, closerpc, progpc,
                   progressDone, timerFired, ips, raced, stdout, table>>

\* main: one iteration of "for result := range results": table.Append
mainRange ==
    /\ Chan /\ mainpc = "range"
    /\ results # <<>>
    /\ table' = [table EXCEPT
                    !.rows = Append(table.rows,
                                    Row(variant, Len(table.rows) + 1,
                                        Head(results)))]
    /\ results' = Tail(results)
    /\ UNCHANGED <<variant, goos, cmdOutput, mainpc, resultsList, resultsOpen, collpc,
                   closerpc, progpc, progressDone, timerFired, ips, glocal,
                   raced, stdout>>
    /\ UNCHANGED inPlaceVars

\* main: the range loop ends on the closed, drained channel; table.Render()
mainRenderC ==
    /\ Chan /\ mainpc = "range"
    /\ results = <<>> /\ ~resultsOpen
    /\ table' = [table EXCEPT !.rendered = TRUE]
    /\ mainpc' = "returned"
    /\ UNCHANGED <<variant, goos, cmdOutput, resultsList, results, resultsOpen, collpc,
                   closerpc, progpc, progressDone, timerFired, ips, glocal,
                   raced, stdout>>
    /\ UNCHANGED inPlaceVars

Peers == 1..MaxPeers

NextChan ==
    \/ mainIPsC
    \/ mainSpawnC
    \/ \E i \in Peers : pingIPC(i)
    \/ \E i \in Peers : probeHangs(i)
    \/ \E i \in Peers : sendResult(i)
    \/ \E i \in Peers : wgDoneT(i)
    \/ closeResults
    \/ mainRange
    \/ mainRenderC

ChanSpec == InitChan /\ [][NextChan]_vars

Next ==
    \/ checkTailscale
    \/ mainStatus
    \/ mainSpawn
    \/ \E i \in Peers : pingIP(i)
    \/ \E i \in Peers : lookupReturn(i)
    \/ \E i \in Peers : wgDone(i)
    \/ \E i \in Peers : barAdd(i)
    \/ \E i \in Peers : probeHangs(i)
    \/ mainWait
    \/ mainGroup
    \/ mainSort
    \/ mainRender
    \/ mainIPs
    \/ timerFires
    \/ mainSpawnT
    \/ \E i \in Peers : pingIPT(i)
    \/ \E i \in Peers : sendResult(i)
    \/ \E i \in Peers : wgDoneT(i)
    \/ collect
    \/ collectEnd
    \/ closeResults
    \/ progressTick
    \/ progressFinish
    \/ selectTimeout
    \/ selectDone
    \/ closeProgress
    \/ sortBegin
    \/ sortEnd
    \/ renderT

Spec == Init /\ [][Next]_vars

\* every variant of the program
EverySpec == (Init \/ InitChan) /\ [][Next \/ NextChan]_vars

\* The Go scheduler runs every runnable goroutine and the runtime delivers
\* the timer: each step of main, of the collector, of the closer, of the
\* reporter and of a pingIP past its external command is taken once it stays
\* enabled.  The external command itself may never return.
FairSpec ==
    /\ Spec
    /\ WF_vars(timerFires)
    /\ WF_vars(mainSpawnT)
    /\ WF_vars(selectTimeout \/ selectDone)
    /\ WF_vars(closeProgress)
    /\ WF_vars(sortBegin)
    /\ WF_vars(sortEnd)
    /\ WF_vars(renderT)
    /\ WF_vars(collect)
    /\ WF_vars(collectEnd)
    /\ WF_vars(closeResults)
    /\ WF_vars(progressFinish)
    /\ \A i \in Peers : WF_vars(sendResult(i)) /\ WF_vars(wgDoneT(i))

(***************************************************************************)
(* Grouping and ranking on their own: the in-place variants from the state *)
(* main is in when wg.Wait() has returned and every goroutine has ended,   *)
(* for every list of up to MaxRank peers and every probe outcome per peer. *)
(***************************************************************************)
AllLookups == [i \in 1..MaxViaLines |-> TRUE]

\* the record of directory line i once its probe has ended with outcome out
Probed(v, i, out) ==
    PingIPInPlace(v, NewPingResult(v, Fields(PeerLine(i))), "linux", out,
                  IF v = "letter" THEN AllLookups ELSE NoLookups).result

RankResults == {CmdError} \cup {[err |-> FALSE, lines |-> o] : o \in RankOutputs}

InitRank ==
    /\ variant \in {"int", "letter"}
    /\ goos = "linux"
    /\ mainpc = "group"
    /\ \E n \in 1..MaxRank :
         \E outs \in [1..n -> RankResults] :
            /\ cmdOutput = [i \in 1..n |-> PeerLine(i)]
            /\ resultsList = [i \in 1..n |-> Probed(variant, i, outs[i])]
            /\ spawned = n
            /\ gpc = [i \in 1..n |-> "exit"]
            /\ completed = n
            /\ bar = n
            /\ glocal = [i \in 1..n |-> [output |-> outs[i].lines,
                                          rest |-> <<>>]]
    /\ wg = 0
    /\ results = <<>>
    /\ resultsOpen = TRUE
    /\ collpc = "new"
    /\ closerpc = "new"
    /\ progpc = "new"
    /\ progressDone = FALSE
    /\ timerFired = FALSE
    /\ ips = <<>>
    /\ raced = FALSE
    /\ stdout = <<>>
    /\ table = NoTable

NextRank ==
    \/ mainGroup
    \/ mainSort
    \/ mainRender

RankSpec == InitRank /\ [][NextRank]_vars

(***************************************************************************)
(* Ranking of the timeout variant on its own: from the state main is in    *)
(* when every result has been collected and the select has taken           *)
(* <-resultsDone, for every list of up to MaxRank results.                 *)
(***************************************************************************)
RankOutcomes == {[err |-> FALSE, lines |-> o] : o \in RankOutputs}

InitRankT ==
    /\ variant = "timeout"
    /\ goos = "linux"
    /\ mainpc = "sort"
    /\ \E n \in 1..MaxRank :
         \E outs \in [1..n -> RankOutcomes] :
            /\ cmdOutput = [i \in 1..n |-> PeerLine(i)]
            /\ ips = [i \in 1..n |-> Fields(PeerLine(i))[2]]
            /\ glocal = [i \in 1..n |->
                            PingIPTimeout(Fields(PeerLine(i))[2],
                                          outs[i]).result]
            /\ resultsList = glocal
            /\ spawned = n
            /\ gpc = [i \in 1..n |-> "exit"]
            /\ completed = n
            /\ bar = n
    /\ wg = 0
    /\ results = <<>>
    /\ resultsOpen = FALSE
    /\ collpc = "exit"
    /\ closerpc = "exit"
    /\ progpc = "exit"
    /\ progressDone = TRUE
    /\ timerFired = FALSE
    /\ raced = FALSE
    /\ stdout = <<[msg |-> "All results collected successfully"]>>
    /\ table = NoTable

NextRankT ==
    \/ sortBegin
    \/ sortEnd
    \/ renderT

RankSpecT == InitRankT /\ [][NextRankT]_vars

(***************************************************************************)
(* Classification on its own: the grouping pass on one peer, for the       *)
(* egress addresses around the borders of the reserved ranges.             *)
(***************************************************************************)
AddressPool ==
    {<<a, b, c, d>> :
        a \in {8, 9, 10, 11, 100, 101, 126, 127, 128, 169, 172, 192, 203, 256},
        b \in {0, 1, 15, 16, 31, 32, 63, 64, 72, 127, 128, 168, 254, 255},
        c \in {0, 2, 8, 113, 255},
        d \in {1, 3, 5, 8, 300}}

InitClassify ==
    /\ variant \in {"int", "letter"}
    /\ goos = "linux"
    /\ mainpc = "group"
    /\ \E ip \in AddressPool :
         LET out == [err |-> FALSE,
                     lines |-> << <<Via(ip[1], ip[2], ip[3], ip[4], Port53),
                                    In(<<7>>)>> >>]
         IN  /\ resultsList = <<Probed(variant, 1, out)>>
             /\ glocal = <<[output |-> out.lines, rest |-> <<>>]>>
    /\ cmdOutput = <<PeerLine(1)>>
    /\ spawned = 1
    /\ gpc = <<"exit">>
    /\ completed = 1
    /\ bar = 1
    /\ wg = 0
    /\ results = <<>>
    /\ resultsOpen = TRUE
    /\ collpc = "new"
    /\ closerpc = "new"
    /\ progpc = "new"
    /\ progressDone = FALSE
    /\ timerFired = FALSE
    /\ ips = <<>>
    /\ raced = FALSE
    /\ stdout = <<>>
    /\ table = NoTable

ClassifySpec == InitClassify /\ [][NextRank]_vars

(***************************************************************************)
(* The directory reader on its own: main from the call of                  *)
(* getTailscaleStatus (in-place variants) or getTailscaleIPs (timeout      *)
(* variant) on, for every listing of StatusPool.                           *)
(***************************************************************************)
InitDirectory ==
    /\ variant \in Variants
    /\ goos = "linux"
    /\ cmdOutput \in StatusPool
    /\ mainpc = "status"
    /\ resultsList = <<>>
    /\ spawned = 0
    /\ gpc = <<>>
    /\ wg = 0
    /\ completed = 0
    /\ bar = 0
    /\ results = <<>>
    /\ resultsOpen = TRUE
    /\ collpc = "new"
    /\ closerpc = "new"
    /\ progpc = "new"
    /\ progressDone = FALSE
    /\ timerFired = FALSE
    /\ ips = <<>>
    /\ glocal = <<>>
    /\ raced = FALSE
    /\ stdout = <<>>
    /\ table = NoTable

NextDirectory ==
    \/ mainStatus
    \/ mainIPs

DirectorySpec == InitDirectory /\ [][NextDirectory]_vars

(***************************************************************************)
(* Vocabulary of the properties.                                           *)
(***************************************************************************)
\* spec.md 4.5: a syntactically valid address outside the reserved ranges
ValidAddress(ip) == Len(ip) = 4 /\ \A k \in 1..4 : ip[k] >= 0 /\ ip[k] <= 255
Reserved(ip) ==
    \/ ip[1] = 10
    \/ ip[1] = 127
    \/ ip[1] = 172 /\ ip[2] >= 16 /\ ip[2] <= 31
    \/ ip[1] = 192 /\ ip[2] = 168
    \/ ip[1] = 169 /\ ip[2] = 254
    \/ ip[1] = 100 /\ ip[2] >= 64 /\ ip[2] <= 127
PublicEgress(r) == ValidAddress(r.externalIP) /\ ~Reserved(r.externalIP)

\* the group field holds Go's zero value
Ungrouped(r) == IF variant = "int" THEN r.group = 0 ELSE r.group = <<>>
\* the number behind a group identifier: the integer, or the letter's rank
GroupNumber(r) ==
    IF variant = "int" THEN r.group
    ELSE IF r.group = <<>> THEN 0 ELSE r.group[1] - 64

\* the mean of the samples as a fraction, 0 for no samples
MeanNum(r) == SumPings(r.pings)
MeanDen(r) == IF Len(r.pings) = 0 THEN 1 ELSE Len(r.pings)

AfterGrouping == InPlace /\ mainpc \in {"sort", "render"}
AfterSort == InPlace /\ mainpc = "render"
Positions == 1..Len(resultsList)

\* the number of peers the directory reader yielded
Total == IF InPlace THEN Len(resultsList) ELSE Len(ips)
\* goroutine i has passed the end of pingIP's body
Returned(i) == gpc[i] \in {"send", "defer", "bar", "exit"}
\* goroutine i has run its deferred wg.Done()
Finished(i) == gpc[i] \in {"bar", "exit"}
Said(text) == \E k \in 1..Len(stdout) : stdout[k].msg = text
Fatal ==
    \/ Said("Error")
    \/ Said("Error getting Tailscale status")
    \/ Said("Error getting IPs")
\* the directory command ran and its output was parsed
DirectoryRead ==
    /\ mainpc \notin {"check", "status", "panic"}
    /\ ~Fatal
TimedOut == Timeout /\ Said("Timeout reached")

(***************************************************************************)
(* C1: pingIP adds one to the completed counter exactly once on every path *)
(* (probe succeeded, command error, unsupported platform): the counter is  *)
(* always the number of probes that have passed the end of pingIP, and     *)
(* when all N dispatched probes have finished it is N.                     *)
(***************************************************************************)
\* every path through pingIP, the unsupported platform included
EveryPathAddsOnce ==
    /\ \A v \in {"int", "letter"}, os \in {"linux", "plan9"},
          out \in CmdResults :
            PingIPInPlace(v, NewPingResult(v, Fields(PeerLine(1))), os, out,
                          NoLookups).add = 1
    /\ \A out \in CmdResults : PingIPTimeout(<<"h", "1">>, out).add = 1

C1_CompletedCountsEachProbeOnce ==
    /\ completed = Cardinality({i \in DOMAIN gpc : Returned(i)})
    /\ (spawned = Total /\ \A i \in DOMAIN gpc : Finished(i))
          => completed = Total
    /\ EveryPathAddsOnce

\* every dispatched probe has finished, one on the error path (its record
\* untouched) and one with samples
C1_Witness ==
    /\ InPlace /\ Total = MaxPeers /\ spawned = Total
    /\ \A i \in DOMAIN gpc : Finished(i)
    /\ completed = Total
    /\ \E i, j \in DOMAIN gpc :
         resultsList[i].pings = <<>> /\ resultsList[j].pings # <<>>

CompletedPeers == {i \in DOMAIN gpc : gpc[i] = "exit"}
C3_ReportHasCompletedPeers ==
    (/\ TimedOut /\ table.rendered
     /\ \A i \in DOMAIN gpc : gpc[i] \in {"exit", "hung"}
     /\ \E i, j \in DOMAIN gpc : gpc[i] = "exit" /\ gpc[j] = "hung")
    => /\ Len(table.rows) = Cardinality(CompletedPeers)
       /\ {table.rows[k].host : k \in 1..Len(table.rows)}
            = {ips[i] : i \in CompletedPeers}
       /\ \E k \in 1..Len(stdout) :
            /\ stdout[k].msg = "Timeout reached"
            /\ stdout[k].collected = Cardinality(CompletedPeers)
            /\ stdout[k].total = Total

(***************************************************************************)
(* C4: in the timeout variant, once main has taken the timeout branch of   *)
(* the select, nothing is appended to resultsList any more.                *)
(***************************************************************************)
C4_NoAppendAfterTimeout ==
    [][TimedOut => Len(resultsList') = Len(resultsList)]_vars

(***************************************************************************)
(* C9: when the directory yields no eligible peer the run ends at once     *)
(* with the no-peers message: no probe is dispatched, nothing is grouped   *)
(* or sorted and no table is rendered.                                     *)
(***************************************************************************)
C9_NoPeersEndsRun ==
    (DirectoryRead /\ Total = 0)
    => /\ mainpc = "returned"
       /\ stdout = <<[msg |-> "No active Tailscale IPs found"]>>
       /\ spawned = 0 /\ gpc = <<>> /\ wg = 0 /\ completed = 0
       /\ resultsList = <<>>
       /\ table = NoTable

C9_Witness ==
    /\ DirectoryRead /\ Total = 0
    /\ Said("No active Tailscale IPs found")

(***************************************************************************)
(* C10: when the tool check or the status command fails, main returns      *)
(* before any probe goroutine is started and before any table is rendered: *)
(* in no state reached after a fatal error has a probe been dispatched or  *)
(* a table rendered.                                                       *)
(***************************************************************************)
C10_FatalBeforeConcurrency ==
    Fatal => /\ mainpc = "returned"
             /\ spawned = 0 /\ wg = 0
             /\ \A i \in DOMAIN gpc : gpc[i] = "new"
             /\ table = NoTable

\* the status command failed after the tool check had passed
C10_Witness ==
    /\ InPlace /\ Said("Error getting Tailscale status")
    /\ mainpc = "returned"

(***************************************************************************)
(* C5: after the grouping pass, two peers with valid public egress         *)
(* addresses have the same group identifier if and only if their egress    *)
(* addresses are equal.                                                    *)
(***************************************************************************)
C5_SameGroupIffSameEgress ==
    AfterGrouping =>
        \A i, j \in Positions :
            PublicEgress(resultsList[i]) /\ PublicEgress(resultsList[j]) =>
                ((resultsList[i].group = resultsList[j].group)
                    <=> (resultsList[i].externalIP = resultsList[j].externalIP))

\* two peers share a public egress address and a third has another one
C5_Witness ==
    /\ AfterGrouping
    /\ \E i, j, k \in Positions :
         /\ i # j
         /\ PublicEgress(resultsList[i]) /\ PublicEgress(resultsList[k])
         /\ resultsList[i].externalIP = resultsList[j].externalIP
         /\ resultsList[i].externalIP # resultsList[k].externalIP
         /\ ~Ungrouped(resultsList[i]) /\ ~Ungrouped(resultsList[k])

(***************************************************************************)
(* C6: a peer whose egress address is absent, syntactically invalid or in  *)
(* a reserved range has no group identifier after the grouping pass: its   *)
(* group is 0 (integer variant) or "" (letter variant).                    *)
(***************************************************************************)
C6_NoGroupWithoutPublicEgress ==
    AfterGrouping =>
        \A i \in Positions :
            ~PublicEgress(resultsList[i]) => Ungrouped(resultsList[i])

\* an absent, an invalid and a private egress address in one list
C6_Witness ==
    /\ AfterGrouping
    /\ \E i, j, k \in Positions :
         /\ resultsList[i].externalIP = <<>>
         /\ Len(resultsList[j].externalIP) = 4
         /\ ~ValidAddress(resultsList[j].externalIP)
         /\ ValidAddress(resultsList[k].externalIP)
         /\ Reserved(resultsList[k].externalIP)

(***************************************************************************)
(* C7: in the sorted list no peer without a group identifier stands before *)
(* a peer that has one (ungrouped peers sort last).                        *)
(***************************************************************************)
C7_UngroupedLast ==
    AfterSort =>
        ~\E i, j \in Positions :
            /\ i < j
            /\ Ungrouped(resultsList[i])
            /\ ~Ungrouped(resultsList[j])

(***************************************************************************)
(* C8: in the sorted list the peers that have a group stand in ascending   *)
(* order of group identifier and, within one group, in ascending order of  *)
(* mean latency, the mean of no samples being 0.                           *)
(***************************************************************************)
C8_GroupedAscending ==
    AfterSort =>
        \A i, j \in Positions :
            (i < j /\ ~Ungrouped(resultsList[i]) /\ ~Ungrouped(resultsList[j]))
            => /\ GroupNumber(resultsList[i]) <= GroupNumber(resultsList[j])
               /\ GroupNumber(resultsList[i]) = GroupNumber(resultsList[j])
                    => MeanNum(resultsList[i]) * MeanDen(resultsList[j])
                         <= MeanNum(resultsList[j]) * MeanDen(resultsList[i])

\* a group holding a peer without samples and a peer with a positive mean,
\* and a second group
C8_Witness ==
    /\ AfterSort
    /\ \E i, j, k \in Positions :
         /\ i < j
         /\ ~Ungrouped(resultsList[i])
         /\ resultsList[i].group = resultsList[j].group
         /\ resultsList[i].pings = <<>>
         /\ MeanNum(resultsList[j]) > 0
         /\ ~Ungrouped(resultsList[k])
         /\ resultsList[k].group # resultsList[i].group

(***************************************************************************)
(* C11: a probe failure of one peer is contained at that peer: it does not *)
(* abort the run and changes neither the samples, nor the egress           *)
(* descriptor, nor the group of a sibling peer; the outcome of peer q is   *)
(* the same whether or not the probe of another peer p failed.             *)
(*                                                                         *)
(* As stated: when main is about to group, every peer q gets the group it  *)
(* would get had the probe of any other peer p failed.                     *)
(***************************************************************************)
\* the list with the record of peer p as a failed probe leaves it
WithFailed(list, p) ==
    IF variant = "int"
    THEN [list EXCEPT ![p].externalIP = <<>>, ![p].port = <<>>,
                      ![p].pings = <<>>]
    ELSE [list EXCEPT ![p].externalIP = <<>>, ![p].port = <<>>,
                      ![p].pings = <<>>, ![p].isp = <<>>]
BeforeGrouping == InPlace /\ mainpc = "group"

ProbeStep(i) == pingIP(i) \/ lookupReturn(i) \/ pingIPT(i)
\* q and r carry the same group identifier in the grouped list
Together(list, q, r) ==
    /\ list[q].group = list[r].group
    /\ ~Ungrouped(list[q])

AllProbesEnded ==
    /\ spawned = Total
    /\ \A i \in DOMAIN gpc : gpc[i] \in {"bar", "exit"}

C12_FailedPeerInReport ==
    (table.rendered /\ Total > 0 /\ AllProbesEnded /\ ~TimedOut)
    => /\ Len(table.rows) = Total
       /\ table.rows # <<>>

(***************************************************************************)
(* C13: the order of the report does not depend on the order in which the  *)
(* probe outcomes arrive, ties on the sort key included.  In the in-place  *)
(* variants the list handed to ranking is in directory order whatever the  *)
(* completion order; in the timeout variant, where the list is in arrival  *)
(* order, sorting any other arrival order of the same outcomes gives the   *)
(* same rows.                                                              *)
(***************************************************************************)
C13_OrderIndependentOfArrival ==
    /\ BeforeGrouping =>
          \A i \in Positions :
              resultsList[i].ip = Fields(PeerLine(i))[1]
    /\ (Timeout /\ mainpc = "sort") =>
          \A other \in Arrangements(resultsList) :
              Rows(variant, insertionSort(variant, other, 2))
                  = Rows(variant, insertionSort(variant, resultsList, 2))

(***************************************************************************)
(* C14: calculateAverage returns the arithmetic mean of the integer        *)
(* samples and, for no samples, the defined value 0 (never an undefined    *)
(* value), in every variant whose ranking calls it.                        *)
(***************************************************************************)
\* the calculateAverage of the variant
MeanOf(v, pings) ==
    IF v = "timeout" THEN calculateAverageT(pings) ELSE calculateAverage(pings)

RECURSIVE SampleSum(_)
SampleSum(pings) ==
    IF pings = <<>> THEN 0 ELSE DigitsValue(Head(pings)) + SampleSum(Tail(pings))

\* sort.Slice has been entered: the comparison has been called on the list
RankingCalled == mainpc \in {"sorting", "render"}

C14_MeanDefined ==
    RankingCalled =>
        \A i \in Positions :
            LET pings == resultsList[i].pings
                m == MeanOf(variant, pings)
            IN  /\ ~m.nan
                /\ pings = <<>> => m.num = 0
                /\ pings # <<>> =>
                      m.num * Len(pings) = SampleSum(pings) * m.den

(***************************************************************************)
(* C15: isPublicIP is true exactly of the syntactically valid addresses    *)
(* that lie in none of 10/8, 127/8, 172.16/12, 192.168/16, 169.254/16 and  *)
(* 100.64/10, and false of everything else, unparsable text included:      *)
(* 10.1.2.3, 192.168.0.5 and 100.72.0.1 are private, 203.0.113.5 and       *)
(* 8.8.8.8 are public.                                                     *)
(***************************************************************************)
\* the addresses the classification scenario names, and the empty text
NamedAddresses ==
    /\ ~isPublicIP(<<10, 1, 2, 3>>)
    /\ ~isPublicIP(<<192, 168, 0, 5>>)
    /\ ~isPublicIP(<<100, 72, 0, 1>>)
    /\ isPublicIP(<<203, 0, 113, 5>>)
    /\ isPublicIP(<<8, 8, 8, 8>>)
    /\ ~isPublicIP(<<>>)

C15_ClassifiesExactly ==
    /\ \A i \in Positions :
          isPublicIP(resultsList[i].externalIP)
              <=> (/\ ValidAddress(resultsList[i].externalIP)
                   /\ ~Reserved(resultsList[i].externalIP))
    /\ NamedAddresses

\* the grouping pass has classified the last address of 172.16/12
C15_Witness ==
    /\ mainpc = "sort"
    /\ resultsList[1].externalIP = <<172, 31, 255, 8>>
    /\ Ungrouped(resultsList[1])

(***************************************************************************)
(* C16: enrichment is skipped for a peer with no egress IP or with an      *)
(* egress IP in a private range: whenever a getIPInfo lookup is in flight, *)
(* the address it asks about is one isPublicIP classifies as public.       *)
(***************************************************************************)
\* goroutine i is inside getIPInfo(result.externalIP)
LookingUp(i) == variant = "letter" /\ i \in DOMAIN gpc /\ gpc[i] = "lookup"

C16_LookupOnlyForPublic ==
    \A i \in Peers :
        LookingUp(i) => isPublicIP(resultsList[i].externalIP)

(***************************************************************************)
(* C17: the samples of a probe are all the `in <n>ms` markers of its       *)
(* output, in output order, also when a line carries more than one; the    *)
(* egress descriptor is the address and port of the last `via` marker of   *)
(* the output, absent when there is none.  The transcript of spec.md       *)
(* section 8 gives egress 203.0.113.5:41641 and samples 17, 22, 19 (sum 58 *)
(* over 3 samples).                                                        *)
(***************************************************************************)
RECURSIVE Markers(_)
\* the markers of an output, left to right, line after line
Markers(lines) ==
    IF lines = <<>> THEN <<>> ELSE Head(lines) \o Markers(Tail(lines))
IsIn(m) == m.k = "in"
IsVia(m) == m.k = "via"
AllSamples(lines) ==
    LET ins == SelectSeq(Markers(lines), IsIn) IN
    [k \in 1..Len(ins) |-> ins[k].ms]
Vias(lines) == SelectSeq(Markers(lines), IsVia)

\* the body of pingIP of peer i is over and main has not reordered the list
ProbeOver(i) ==
    /\ InPlace /\ mainpc \in {"spawn", "wait", "group"}
    /\ i \in DOMAIN gpc /\ gpc[i] \in {"defer", "bar", "exit"}

C17_ParsesEveryMarker ==
    /\ \A i \in Peers :
          ProbeOver(i) =>
             LET out == glocal[i].output
                 r == resultsList[i]
                 vias == Vias(out)
             IN  /\ r.pings = AllSamples(out)
                 /\ vias = <<>> => r.externalIP = <<>> /\ r.port = <<>>
                 /\ vias # <<>> => /\ r.externalIP = vias[Len(vias)].ip
                                   /\ r.port = vias[Len(vias)].port
    /\ LET r == Probed("int", 1, [err |-> FALSE, lines |-> OutExample])
       IN  /\ r.externalIP = <<203, 0, 113, 5>> /\ r.port = Port41641
           /\ r.pings = << <<1, 7>>, <<2, 2>>, <<1, 9>> >>
           /\ SumPings(r.pings) = 58 /\ Len(r.pings) = 3

(***************************************************************************)
(* C18: group identifiers are handed out in pre-sort (directory) order:    *)
(* the k-th distinct public egress IP met gets identifier k, so the        *)
(* identifiers in use are exactly 1..G for G distinct public IPs; in the   *)
(* letter variant the count in a peer's label is the number of peers with  *)
(* that peer's egress IP.                                                  *)
(***************************************************************************)
\* grouped and not yet sorted: the list is still in directory order
GroupedUnsorted == InPlace /\ mainpc = "sort"
PublicAt(j) == PublicEgress(resultsList[j])
\* the position at which the egress IP of peer i is met first
FirstSeen(i) ==
    CHOOSE j \in 1..i :
        /\ resultsList[j].externalIP = resultsList[i].externalIP
        /\ \A h \in 1..(j - 1) :
              resultsList[h].externalIP # resultsList[i].externalIP
\* the rank of the egress IP of peer i among the distinct public IPs
SeenRank(i) ==
    Cardinality({resultsList[j].externalIP :
                    j \in {h \in 1..FirstSeen(i) : PublicAt(h)}})
Sharing(i) ==
    Cardinality({j \in Positions :
                    resultsList[j].externalIP = resultsList[i].externalIP})
DistinctPublic ==
    {resultsList[j].externalIP : j \in {h \in Positions : PublicAt(h)}}

C18_IdentifiersInFirstSeenOrder ==
    GroupedUnsorted =>
        /\ \A i \in Positions :
              PublicAt(i) =>
                 /\ GroupNumber(resultsList[i]) = SeenRank(i)
                 /\ variant = "letter" =>
                       resultsList[i].group
                          = <<64 + SeenRank(i), 32, 40>>
                               \o Decimal(Sharing(i)) \o <<41>>
        /\ {GroupNumber(resultsList[i]) : i \in {h \in Positions : PublicAt(h)}}
              = 1..Cardinality(DistinctPublic)

\* letter variant: the second public address of the list, shared by two
\* peers, behind a peer without a public egress
C18_Witness ==
    /\ GroupedUnsorted /\ variant = "letter"
    /\ \E i, j, k \in Positions :
         /\ i < j /\ j < k
         /\ PublicAt(i) /\ PublicAt(j)
         /\ resultsList[i].externalIP # resultsList[j].externalIP
         /\ resultsList[k].externalIP = resultsList[j].externalIP
         /\ SeenRank(k) = 2 /\ Sharing(k) = 2

(***************************************************************************)
(* C19: enrichment lookups are serialized: at no moment are two getIPInfo  *)
(* lookups in flight at the same time.                                     *)
(***************************************************************************)
C19_LookupsSerialized ==
    Cardinality({i \in Peers : LookingUp(i)}) <= 1

(***************************************************************************)
(* C20: in the parallel phase no peer record is written by more than one   *)
(* goroutine, and no goroutine reads or writes a plain shared variable (a  *)
(* peer record, the collected result list) while another goroutine may be  *)
(* writing it, the timeout path included: main touches the records only    *)
(* when every probe goroutine is past its writes, and reads the collected  *)
(* list only when the collector has ended.                                 *)
(***************************************************************************)
\* main is reading or writing resultsList
MainUsesList ==
    \/ InPlace /\ mainpc \in {"group", "sort", "render"}
    \/ Timeout /\ mainpc \in {"sorting", "render"}
\* goroutine i may still write its peer's record
MayWriteRecord(i) == InPlace /\ gpc[i] \in {"go", "lookup", "hung"}
\* the collector may still append to resultsList
MayAppend == Timeout /\ collpc = "run"

C20_NoUnsynchronisedSharing ==
    /\ ~raced
    /\ MainUsesList =>
          /\ \A i \in DOMAIN gpc : ~MayWriteRecord(i)
          /\ ~MayAppend

(***************************************************************************)
(* C21: getTailscaleStatus returns, in the order of the listing, one       *)
(* record (address, name, owner, platform = the first four fields) for     *)
(* every line that is not blank, is not a comment, is not the line of the  *)
(* local node, has at least four fields and whose status (the fields after *)
(* the fourth) does not hold the offline marker; no other line yields a    *)
(* record, and a line of exactly four fields is accepted.                  *)
(***************************************************************************)
\* the status suffix of a line: the fields after the fourth
StatusSuffix(line) ==
    LET f == Fields(line) IN Join(SubSeq(f, 5, Len(f)), <<" ">>)
Blank(line) == \A k \in 1..Len(line) : IsSpace(line[k])
Comment(line) == ~Blank(line) /\ Head(TrimLeft(line)) = "#"
\* the line that stands for the local node: its status says so
LocalNode(line) == Contains(StatusSuffix(line), Self)
Eligible(line) ==
    /\ ~Blank(line) /\ ~Comment(line) /\ ~LocalNode(line)
    /\ Len(Fields(line)) >= 4
    /\ ~Contains(StatusSuffix(line), offline)
\* getTailscaleStatus has returned without an error
StatusReturned ==
    /\ InPlace /\ mainpc \in {"spawn", "returned"}
    /\ ~Said("Error getting Tailscale status")

C21_RecordPerEligibleLine ==
    StatusReturned =>
        LET lines == SelectSeq(cmdOutput, Eligible) IN
        /\ Len(resultsList) = Len(lines)
        /\ \A k \in 1..Len(lines) :
              LET f == Fields(lines[k]) IN
              /\ resultsList[k].ip = f[1]
              /\ resultsList[k].hostname = f[2]
              /\ resultsList[k].user = f[3]
              /\ resultsList[k].os = f[4]

(***************************************************************************)
(* C22: in the channel-based variants the results channel is used safely   *)
(* in every interleaving: a probe goroutine sends at most one outcome, a   *)
(* goroutine about to send finds a free slot in the buffer (one slot per   *)
(* peer), and the channel is closed only when every probe goroutine has    *)
(* ended, so that nobody sends on a closed channel, also after main has    *)
(* taken the timeout branch.                                               *)
(***************************************************************************)
Sending(i) == gpc[i] = "send"
\* goroutine i is past its send, or has returned without one
PastSend(i) == gpc[i] \in {"defer", "exit"}
ChannelState ==
    Channelled =>
        /\ Len(results) <= Len(ips)
        /\ \A i \in DOMAIN gpc :
              Sending(i) => resultsOpen /\ Len(results) < Len(ips)
        /\ ~resultsOpen =>
              /\ spawned = Len(ips)
              /\ \A i \in DOMAIN gpc : gpc[i] = "exit"
ChannelStep ==
    Channelled =>
        /\ \A i \in DOMAIN gpc : PastSend(i) => PastSend(i)'
        /\ resultsOpen' => resultsOpen
        /\ Len(results') > Len(results) =>
              \E i \in DOMAIN gpc :
                 /\ Sending(i) /\ PastSend(i)'
                 /\ results' = Append(results, glocal[i])
                 /\ \A j \in DOMAIN gpc \ {i} : gpc'[j] = gpc[j]

C22_ChannelUsedSafely == []ChannelState /\ [][ChannelStep]_vars

\* the timeout branch was taken, both probes sent afterwards or before, and
\* the closer has closed the channel
C22_Witness ==
    /\ TimedOut /\ ~resultsOpen
    /\ Len(ips) >= 2
    /\ Len(results) + Len(resultsList) >= 2

(***************************************************************************)
(* C23: in the in-place variants, once main has passed wg.Wait() the       *)
(* progress bar has received one Add(1) for every dispatched peer: from    *)
(* the grouping pass on, also when the table is rendered, it stands at N   *)
(* of N.                                                                   *)
(***************************************************************************)
PastWait ==
    /\ InPlace
    /\ \/ mainpc \in {"group", "sort", "render"}
       \/ mainpc = "returned" /\ table.rendered

C23_BarFullAfterWait == PastWait => bar = Total

(***************************************************************************)
(* C24: in the enrichment variant, when a peer's probe has finished, its   *)
(* ISP label is absent or is the label the lookup returned for the peer's  *)
(* final egress address: a label obtained for an earlier via line with     *)
(* another address does not stay when the lookup for the last one fails.   *)
(***************************************************************************)
C24_LabelOfFinalEgress ==
    \A i \in DOMAIN gpc :
        (variant = "letter" /\ ProbeOver(i)) =>
            \/ resultsList[i].isp = <<>>
            \/ resultsList[i].isp = ISPLabel(resultsList[i].externalIP)

(***************************************************************************)
(* C25: in the timeout variant getTailscaleIPs never reads a field a line  *)
(* does not have: whatever the number of fields of a line, the line is     *)
(* skipped or a field that exists is appended, and the function never      *)
(* fails with an index out of range.                                       *)
(***************************************************************************)
\* the process died inside getTailscaleIPs: the command was built and ran,
\* and no goroutine exists yet
DiedReading ==
    /\ Timeout /\ goos \in SupportedOS
    /\ mainpc = "panic" /\ gpc = <<>>
\* getTailscaleIPs has returned without an error
IPsReturned ==
    /\ Timeout /\ mainpc \in {"spawn", "returned"}
    /\ ~Said("Error getting IPs")

C25_NoFieldOutOfRange ==
    /\ ~DiedReading
    /\ IPsReturned =>
          \A k \in 1..Len(ips) :
             \E n \in 1..Len(cmdOutput) :
                \E j \in 1..Len(Fields(cmdOutput[n])) :
                   ips[k] = Fields(cmdOutput[n])[j]

=============================================================================
